---------------------------- MODULE Spec2Model ----------------------------
(***************************************************************************)
(* A model of jalb, a layer-4 TCP load balancer.                           *)
(*                                                                         *)
(*   selector.rs       RoundRobin: the peer pool and its rotating cursor   *)
(*   security.rs       Security: the IP whitelist / blacklist              *)
(*   load_balancer.rs  NetworkLoadBalancer: accept loop, filter, dispatch  *)
(*   main.rs           LoadBalancer<RoundRobinSelector>: the binary's      *)
(*                     accept loop, serve_request and its proxy loop       *)
(*   selectors.rs      RoundRobinSelector: index selection over backends   *)
(*   peer.rs           Peer: construction and the health probe             *)
(*   config.rs         NetworkTarget, PeerConfig, BackendOptions           *)
(*   backend.rs        Backend: construction from its configuration        *)
(*   pool.rs           ThreadPool: workers, the job channel and drop       *)
(*                                                                         *)
(* Rust's Option<T> is a sequence of length 0 (None) or 1 (Some(x)).       *)
(* Vec<T> is a sequence; the 0-based index i of the code is i + 1 here.    *)
(***************************************************************************)
EXTENDS Integers, Sequences, FiniteSets, TLC

\* ------------------------------------------------------------------ bounds

\* Peers a pool holds at most, and the peer identities 1..MaxPool.
MaxPool == 3
\* next() calls observed on the stand-alone selector.
MaxCalls == 5
\* Client IP addresses 1..NumIPs.
NumIPs == 2
\* Connections the accept loop accepts, 1..MaxConns in the order accepted.
MaxConns == 2

\* Bytes each side of a relay sends.
MaxSend == 2
\* The length of the relay's buffer (8192 in the code).
BufLen == 2

\* Weights a configuration entry gives, 0..MaxWeight (u32 in the code).
MaxWeight == 2
\* Connect timeouts of a health probe, 1..MaxTimeout ticks.
MaxTimeout == 2
\* Health probes made on a peer.
MaxProbes == 2
\* Path segments pushed to a target, and the segments pushed.
MaxSegs == 2
Segs == {"api", "v1"}

\* Seconds a configured timeout or interval gives, 1..MaxSecs.
MaxSecs == 3
\* Workers of a thread pool at most, and jobs sent to it.
MaxWorkers == 2
MaxJobs == 2

Peers == 1..MaxPool
IPs == 1..NumIPs

None == <<>>
Some(x) == <<x>>

VARIABLES
    selector,     \* RoundRobin { last_idx, pool }
    sel_ret,      \* what the last RoundRobin::next() returned: None, Some(peer)
    sel_calls,    \* next() / select_service() calls made on the selector
    sel_fresh,    \* no add_peer was made after the first next()
    sel_hist,     \* what the next() calls returned since the pool was last
                  \* modified
    sel_health,   \* the health flag of each peer (fixed once the peer is in
                  \* the pool: the pool holds Arc<Peer>)
    security,     \* Security { ip_whitelist, ip_blacklist }
    sec_query,    \* the last is_allowed call: None, or Some of its argument,
                  \* its result and the Security it was made on
    program,      \* "nlb": NetworkLoadBalancer::run_forever (load_balancer.rs)
                  \* "lb":  main's accept loop over LoadBalancer (main.rs)
    accept_loop,  \* "running", "stopped" (accept returned Err), "panicked"
    n_accepted,   \* connections accepted so far
    conns,        \* per connection: stage, client ip, chosen peer, history
    lb,           \* main.rs: LoadBalancer { services, whitelist, blacklist,
                  \*          selector, session_requests }
    mutex,        \* main.rs: the tokio Mutex around the LoadBalancer:
                  \*          0 (free) or the connection whose task holds it
    relay_impl,   \* "proxy_loop": serve_request's loop (main.rs)
                  \* "copy_bidirectional": proxy_connection (load_balancer.rs)
    relay_result, \* "none" while the relay runs, then "Ok" or "Err"
    net,          \* what the client and the server have sent, not yet read
    io,           \* what the relay has read from and written to each stream
    proxy,        \* main.rs: the proxy loop's locals
    cb,           \* load_balancer.rs: copy_bidirectional's two transfers
    the_peer,     \* peer.rs: Peer { healthy, health_endpoint, address, weight }
    peer_src,     \* how the peer was built: Peer::new or Peer::from_config
    probe,        \* the peer's health probes: the call in progress, the last
                  \* result, the time elapsed in the pending connect
    target,       \* config.rs: a NetworkTarget and the last push made on it
    backend_cfg,  \* config.rs: a BackendOptions
    backend,      \* backend.rs: None, or Some(Backend::from_config(..))
    tp            \* pool.rs: a ThreadPool, its channel and its workers

selVars == <<selector, sel_ret, sel_calls, sel_fresh, sel_hist, sel_health>>
secVars == <<security, sec_query>>
dispVars == <<program, accept_loop, n_accepted, conns, lb, mutex>>
relayVars == <<relay_impl, relay_result, net, io, proxy, cb>>
peerVars == <<the_peer, peer_src, probe, target>>
cfgVars == <<backend_cfg, backend>>
poolVars == <<tp>>
vars == <<selector, sel_ret, sel_calls, sel_fresh, sel_hist, sel_health, security, sec_query,
          program, accept_loop, n_accepted, conns, lb, mutex,
          relay_impl, relay_result, net, io, proxy, cb,
          the_peer, peer_src, probe, target, backend_cfg, backend, tp>>

\* ------------------------------------------------------- selector.rs

\* RoundRobin::new
RoundRobin_new == [last_idx |-> 0, pool |-> <<>>]

\* The result of next() on an empty pool were the guard `len == 0` missing:
\* `% 0` panics.
RoundRobin_next_unguarded(sel) ==
    LET len == Len(sel.pool) IN
    IF len = 0
    THEN [sel |-> sel, ret |-> Some("panic")]
    ELSE LET i == (sel.last_idx + 1) % len IN
         [sel |-> [sel EXCEPT !.last_idx = i], ret |-> Some(sel.pool[i + 1])]

\* next() that returns the peer under the cursor and leaves the cursor there.
RoundRobin_next_sticky(sel) ==
    LET len == Len(sel.pool) IN
    IF len = 0
    THEN [sel |-> sel, ret |-> None]
    ELSE [sel |-> sel, ret |-> Some(sel.pool[sel.last_idx + 1])]

\* next() without the `% len`: the cursor runs past the pool's end, where
\* pool.get gives None.
RoundRobin_next_no_wrap(sel) ==
    LET len == Len(sel.pool) IN
    IF len = 0
    THEN [sel |-> sel, ret |-> None]
    ELSE LET i == sel.last_idx + 1 IN
         [sel |-> [sel EXCEPT !.last_idx = i],
          ret |-> IF i < len THEN Some(sel.pool[i + 1]) ELSE None]

\* next() that gives a peer only when its health flag is true.
RoundRobin_next_healthy_only(sel) ==
    LET len == Len(sel.pool) IN
    IF len = 0
    THEN [sel |-> sel, ret |-> None]
    ELSE LET i == (sel.last_idx + 1) % len IN
         [sel |-> [sel EXCEPT !.last_idx = i],
          ret |-> IF sel_health[sel.pool[i + 1]]
                  THEN Some(sel.pool[i + 1]) ELSE None]

\* RoundRobin::next: the selector afterwards and the value returned.
RoundRobin_next(sel) ==
    LET len == Len(sel.pool) IN
    IF len = 0
    THEN [sel |-> sel, ret |-> None]
    ELSE LET i == (sel.last_idx + 1) % len IN
         [sel |-> [sel EXCEPT !.last_idx = i], ret |-> Some(sel.pool[i + 1])]

\* add_peer that inserts the peer at the front of the pool.
RoundRobin_add_peer_front(sel, peer) == [sel EXCEPT !.pool = <<peer>> \o @]

\* RoundRobin::add_peer
RoundRobin_add_peer(sel, peer) == [sel EXCEPT !.pool = Append(@, peer)]

SelInit ==
    /\ selector = RoundRobin_new
    /\ sel_ret = None
    /\ sel_calls = 0
    /\ sel_fresh = TRUE
    /\ sel_hist = <<>>
    /\ sel_health = [p \in Peers |-> FALSE]

\* selector.add_peer(peer)
SelAddPeer(peer) ==
    /\ Len(selector.pool) < MaxPool
    /\ selector' = RoundRobin_add_peer(selector, peer)
    /\ sel_fresh' = (sel_fresh /\ sel_calls = 0)
    /\ sel_hist' = <<>>
    /\ UNCHANGED <<sel_ret, sel_calls, sel_health>>

\* selector.next()
SelNext ==
    /\ sel_calls < MaxCalls
    /\ LET r == RoundRobin_next(selector) IN
        /\ selector' = r.sel
        /\ sel_ret' = r.ret
        /\ sel_hist' = Append(sel_hist, r.ret)
    /\ sel_calls' = sel_calls + 1
    /\ UNCHANGED <<sel_fresh, sel_health>>

\* ------------------------------------------------------- security.rs

\* Security::new
Security_new == [ip_whitelist |-> {}, ip_blacklist |-> {}]

\* is_allowed without the blacklist test.
Security_is_allowed_no_deny(sec, ip) ==
    IF sec.ip_whitelist # {}
    THEN IF ip \notin sec.ip_whitelist THEN FALSE ELSE TRUE
    ELSE TRUE

\* Security::is_allowed
Security_is_allowed(sec, ip) ==
    IF ip \in sec.ip_blacklist
    THEN FALSE
    ELSE IF sec.ip_whitelist # {}
         THEN IF ip \notin sec.ip_whitelist THEN FALSE ELSE TRUE
         ELSE TRUE

\* Security::add_to_whitelist
Security_add_to_whitelist(sec, ip) ==
    [sec EXCEPT !.ip_whitelist = @ \cup {ip}]

\* Security::add_to_blacklist
Security_add_to_blacklist(sec, ip) ==
    [sec EXCEPT !.ip_blacklist = @ \cup {ip}]

\* Security::remove_from_whitelist
Security_remove_from_whitelist(sec, ip) ==
    [sec EXCEPT !.ip_whitelist = @ \ {ip}]

\* Security::remove_from_blacklist
Security_remove_from_blacklist(sec, ip) ==
    [sec EXCEPT !.ip_blacklist = @ \ {ip}]

SecInit ==
    /\ security = Security_new
    /\ sec_query = None

SecAddToWhitelist(ip) ==
    /\ security' = Security_add_to_whitelist(security, ip)
    /\ UNCHANGED sec_query

SecAddToBlacklist(ip) ==
    /\ security' = Security_add_to_blacklist(security, ip)
    /\ UNCHANGED sec_query

SecRemoveFromWhitelist(ip) ==
    /\ security' = Security_remove_from_whitelist(security, ip)
    /\ UNCHANGED sec_query

SecRemoveFromBlacklist(ip) ==
    /\ security' = Security_remove_from_blacklist(security, ip)
    /\ UNCHANGED sec_query

\* security.is_allowed(&ip)
SecIsAllowed(ip) ==
    /\ sec_query' = Some([ip |-> ip, ret |-> Security_is_allowed(security, ip),
                           on |-> security])
    /\ UNCHANGED security

\* ------------------------------------------------------- selectors.rs

\* RoundRobinSelector::new
RoundRobinSelector_new == [last_idx |-> 0]

\* select_service that advances the cursor before it reads it, as
\* RoundRobin::next does.
RoundRobinSelector_select_service_advance_first(sel, backends) ==
    IF Len(backends) = 0
    THEN [sel |-> sel, ret |-> 0]
    ELSE LET i == (sel.last_idx + 1) % Len(backends) IN
         [sel |-> [sel EXCEPT !.last_idx = i], ret |-> i]

\* RoundRobinSelector::select_service: the selector afterwards and the
\* 0-based index returned.
RoundRobinSelector_select_service(sel, backends) ==
    IF Len(backends) = 0
    THEN [sel |-> sel, ret |-> 0]
    ELSE [sel |-> [sel EXCEPT !.last_idx = (sel.last_idx + 1) % Len(backends)],
          ret |-> sel.last_idx]

\* LoadBalancer::select_backend, called on its own: select_service over the
\* balancer's services; the index returned is recorded.
LbSelectBackend ==
    /\ sel_calls < MaxCalls
    /\ LET r == RoundRobinSelector_select_service(lb.selector, lb.services) IN
        /\ lb' = [lb EXCEPT !.selector = r.sel]
        /\ sel_hist' = Append(sel_hist, r.ret)
    /\ sel_calls' = sel_calls + 1
    /\ UNCHANGED <<selector, sel_ret, sel_fresh, sel_health>>
    /\ UNCHANGED <<program, accept_loop, n_accepted, conns, mutex>>

\* ------------------------------------------ the per-connection record

Stages == <<"Accepted", "Filtered", "Selected", "Connected", "Relaying">>

\* A connection the listener has not accepted yet.
IdleConn ==
    [st |-> "Idle", ip |-> 0, peer |-> None, trace |-> <<>>, fail |-> "none",
     resolved |-> FALSE, outbound |-> FALSE, relayed |-> FALSE]

\* The connection moves to stage st.
Enter(conn, st) == [conn EXCEPT !.st = st, !.trace = Append(@, st)]

\* Both streams are released: the connection ends, for the reason given
\* ("none": the relay ran to completion).
Close(conn, why) == [Enter(conn, "Closed") EXCEPT !.fail = why]

\* --------------------------------------------------- load_balancer.rs

\* Security::is_blacklisted and Security::is_whitelisted are called by
\* NetworkLoadBalancer::is_allowed and defined in no source file: they are
\* the membership tests of the policy's two sets.
Security_is_blacklisted(sec, ip) == ip \in sec.ip_blacklist

Security_is_whitelisted(sec, ip) == ip \in sec.ip_whitelist

\* NetworkLoadBalancer::is_allowed
NetworkLoadBalancer_is_allowed(sec, ip) ==
    ~Security_is_blacklisted(sec, ip) /\ Security_is_whitelisted(sec, ip)

RECURSIVE AddPeers(_, _)
\* cfg.backend.peers().drain(0..).for_each(|p| selector.add_peer(p))
AddPeers(sel, peers) ==
    IF peers = <<>> THEN sel
    ELSE AddPeers(RoundRobin_add_peer(sel, Head(peers)), Tail(peers))

\* NetworkLoadBalancer::new_from_config, for the round_robin strategy.
NetworkLoadBalancer_new_from_config(cfg) ==
    [security |-> cfg.security,
     selector |-> AddPeers(RoundRobin_new, cfg.peers)]

\* listener_task that asks the selector for a peer before it tests the
\* client's address.
NetworkLoadBalancer_listener_task_select_first(sec, sel, ip) ==
    LET r == RoundRobin_next(sel) IN
    IF ~NetworkLoadBalancer_is_allowed(sec, ip)
    THEN [selector |-> r.sel, admitted |-> FALSE, peer |-> None]
    ELSE [selector |-> r.sel, admitted |-> TRUE, peer |-> r.ret]

\* listener_task with the filter's test inverted.
NetworkLoadBalancer_listener_task_inverted(sec, sel, ip) ==
    IF NetworkLoadBalancer_is_allowed(sec, ip)
    THEN [selector |-> sel, admitted |-> FALSE, peer |-> None]
    ELSE LET r == RoundRobin_next(sel) IN
         [selector |-> r.sel, admitted |-> TRUE, peer |-> r.ret]

\* NetworkLoadBalancer::listener_task up to the spawn: whether the client
\* passed the filter, the peer the selector gave, the selector afterwards.
NetworkLoadBalancer_listener_task(sec, sel, ip) ==
    IF ~NetworkLoadBalancer_is_allowed(sec, ip)
    THEN [selector |-> sel, admitted |-> FALSE, peer |-> None]
    ELSE LET r == RoundRobin_next(sel) IN
         [selector |-> r.sel, admitted |-> TRUE, peer |-> r.ret]

\* An accept loop that serves each connection itself before it accepts the
\* next one.
AcceptLoopReady_serving_inline(loop, cs) ==
    /\ loop = "running"
    /\ \A c \in DOMAIN cs : cs[c].st \in {"Idle", "Closed"}

\* while let Ok((stream, addr)) = listener.accept().await: the loop's only
\* await is the accept; the work on a connection is spawned as a task.
AcceptLoopReady(loop, cs) == loop = "running"

\* run_forever: one iteration whose accept returns Ok((stream, addr)), with
\* the listener_task call it makes. A rejected client's stream is dropped at
\* the return; with no peer nothing is spawned and the stream is dropped too.
NlbAccept(ip) ==
    /\ program = "nlb"
    /\ AcceptLoopReady(accept_loop, conns)
    /\ n_accepted < MaxConns
    /\ LET c == n_accepted + 1
           r == NetworkLoadBalancer_listener_task(security, selector, ip)
           filtered == Enter(Enter([IdleConn EXCEPT !.ip = ip], "Accepted"),
                             "Filtered")
       IN  /\ selector' = r.selector
           /\ conns' = [conns EXCEPT ![c] =
                  IF ~r.admitted THEN Close(filtered, "rejected")
                  ELSE IF r.peer = None
                       THEN Close(Enter(filtered, "Selected"), "no_peer")
                       ELSE [Enter(filtered, "Selected") EXCEPT !.peer = r.peer]]
    /\ n_accepted' = n_accepted + 1
    /\ UNCHANGED <<program, accept_loop, security, lb, mutex>>

\* run_forever: accept returns Err and the while-let loop ends.
NlbAcceptErr ==
    /\ program = "nlb"
    /\ accept_loop = "running"
    /\ accept_loop' = "stopped"
    /\ UNCHANGED <<program, n_accepted, conns, lb, mutex, selector, security>>

\* A panic raised in the accept loop's own task ends the loop.
InlinePanic(loop) == "panicked"

\* What a panic inside the spawned task does to the accept loop: nothing,
\* the runtime catches it and ends the task alone.
SpawnedTaskPanic(loop) == loop

\* The spawned task, up to its first await: to_socket_addrs().expect(..)
\* panics on an unresolvable target; tcpsocket_from_address may fail; then
\* the outbound connect is pending.
NlbTaskStart(c) ==
    /\ program = "nlb"
    /\ conns[c].st = "Selected"
    /\ \E r \in {"resolved", "unresolvable", "socket_err"} :
         /\ conns' = [conns EXCEPT ![c] =
              CASE r = "resolved" ->
                     [Enter(conns[c], "Connected") EXCEPT !.resolved = TRUE]
                [] r = "unresolvable" ->
                     Close(Enter(conns[c], "Connected"), "unresolvable")
                [] r = "socket_err" ->
                     Close([Enter(conns[c], "Connected") EXCEPT !.resolved = TRUE],
                           "connect")]
         /\ accept_loop' = IF r = "unresolvable"
                           THEN SpawnedTaskPanic(accept_loop) ELSE accept_loop
    /\ UNCHANGED <<program, n_accepted, lb, mutex, selector, security>>

\* A connect error taken for success.
ConnectOutcome_ignored(conn, ok) ==
    [Enter(conn, "Relaying") EXCEPT !.outbound = ok]

\* proxy_connection: socket.connect(upstream).await? -- the stage after a
\* connect that returned ok (true) or an error (false).
ConnectOutcome(conn, ok) ==
    IF ok
    THEN [Enter(conn, "Relaying") EXCEPT !.outbound = TRUE]
    ELSE Close(conn, "connect")

\* proxy_connection: the outbound connect completes.
NlbConnectDone(c) ==
    /\ program = "nlb"
    /\ conns[c].st = "Connected"
    /\ \E ok \in BOOLEAN : conns' = [conns EXCEPT ![c] = ConnectOutcome(conns[c], ok)]
    /\ UNCHANGED <<program, accept_loop, n_accepted, lb, mutex, selector, security>>

\* proxy_connection: copy_bidirectional forwards the relay's first bytes
\* (the dispatcher's view of a relay: whether bytes were exchanged).
NlbRelayChunk(c) ==
    /\ program = "nlb"
    /\ conns[c].st = "Relaying"
    /\ ~conns[c].relayed
    /\ conns' = [conns EXCEPT ![c].relayed = TRUE]
    /\ UNCHANGED <<program, accept_loop, n_accepted, lb, mutex, selector, security>>

\* proxy_connection: copy_bidirectional returns, Ok or Err (printed); the
\* task ends and drops both streams.
NlbRelayEnd(c) ==
    /\ program = "nlb"
    /\ conns[c].st = "Relaying"
    /\ \E ok \in BOOLEAN :
         conns' = [conns EXCEPT ![c] = Close(conns[c], IF ok THEN "none" ELSE "relay")]
    /\ UNCHANGED <<program, accept_loop, n_accepted, lb, mutex, selector, security>>

\* ------------------------------------------------------------- main.rs

\* LoadBalancer::with_backends (LoadBalancer::new is with_backends(vec![])).
LoadBalancer_with_backends(services) ==
    [services |-> services, whitelist |-> None, blacklist |-> None,
     selector |-> RoundRobinSelector_new, session_requests |-> 0]

\* serve_request's IP filter: peer_addr is the Option of the client address
\* (None: peer_addr() returned Err and the filter is skipped).
LoadBalancer_rejects(b, peer_addr) ==
    /\ peer_addr # None
    /\ \/ (b.blacklist # None /\ peer_addr[1] \in b.blacklist[1])
       \/ (b.whitelist # None /\ b.whitelist[1] # {}
             /\ peer_addr[1] \notin b.whitelist[1])

\* LoadBalancer::serve_request up to its first await: Err(PermissionDenied),
\* Err(NotFound), or the backend whose connect is then pending.
LoadBalancer_serve_request_begin(b, peer_addr) ==
    IF LoadBalancer_rejects(b, peer_addr)
    THEN [lb |-> b, res |-> "PermissionDenied", backend |-> None]
    ELSE LET r == RoundRobinSelector_select_service(b.selector, b.services)
             b2 == [b EXCEPT !.selector = r.sel]
         IN  IF r.ret + 1 \in DOMAIN b.services
             THEN [lb |-> b2, res |-> "connect", backend |-> Some(b.services[r.ret + 1])]
             ELSE [lb |-> b2, res |-> "NotFound", backend |-> None]

\* main: one iteration of the accept loop whose accept returns Ok: the task
\* is spawned and waits for the balancer's lock.
LbAccept(ip) ==
    /\ program = "lb"
    /\ AcceptLoopReady(accept_loop, conns)
    /\ n_accepted < MaxConns
    /\ conns' = [conns EXCEPT ![n_accepted + 1] =
                    Enter([IdleConn EXCEPT !.ip = ip], "Accepted")]
    /\ n_accepted' = n_accepted + 1
    /\ UNCHANGED <<program, accept_loop, lb, mutex, selector, security>>

\* main: accept returns Err and the while-let loop ends.
LbAcceptErr ==
    /\ program = "lb"
    /\ accept_loop = "running"
    /\ accept_loop' = "stopped"
    /\ UNCHANGED <<program, n_accepted, conns, lb, mutex, selector, security>>

\* The spawned task takes the lock and runs serve_request up to the connect.
\* An Err is unwrapped: the task panics, which drops the guard and the stream.
LbServeStart(c) ==
    /\ program = "lb"
    /\ conns[c].st = "Accepted"
    /\ mutex = 0
    /\ \E peer_addr \in {None, Some(conns[c].ip)} :
         LET r == LoadBalancer_serve_request_begin(lb, peer_addr)
             filtered == Enter(conns[c], "Filtered")
         IN  /\ lb' = r.lb
             /\ conns' = [conns EXCEPT ![c] =
                  CASE r.res = "PermissionDenied" -> Close(filtered, "rejected")
                    [] r.res = "NotFound" ->
                         Close(Enter(filtered, "Selected"), "no_peer")
                    [] r.res = "connect" ->
                         [Enter(Enter(filtered, "Selected"), "Connected")
                            EXCEPT !.peer = r.backend]]
             /\ mutex' = IF r.res = "connect" THEN c ELSE 0
             /\ accept_loop' = IF r.res = "connect" THEN accept_loop
                               ELSE SpawnedTaskPanic(accept_loop)
    /\ UNCHANGED <<program, n_accepted, selector, security>>

\* serve_request: TcpStream::connect(..).await? completes. It resolves the
\* backend's address and connects; an Err is unwrapped by the task.
LbConnectDone(c) ==
    /\ program = "lb"
    /\ conns[c].st = "Connected"
    /\ mutex = c
    /\ \E ok \in BOOLEAN :
         /\ conns' = [conns EXCEPT ![c] =
               ConnectOutcome([conns[c] EXCEPT !.resolved = ok], ok)]
         /\ mutex' = IF ok THEN c ELSE 0
         /\ accept_loop' = IF ok THEN accept_loop ELSE SpawnedTaskPanic(accept_loop)
    /\ UNCHANGED <<program, n_accepted, lb, selector, security>>

\* serve_request: the proxy loop forwards the relay's first chunk; a chunk
\* written to the server counts as a session request.
LbRelayChunk(c) ==
    /\ program = "lb"
    /\ conns[c].st = "Relaying"
    /\ ~conns[c].relayed
    /\ conns' = [conns EXCEPT ![c].relayed = TRUE]
    /\ \E to_server \in BOOLEAN :
         lb' = [lb EXCEPT !.session_requests = IF to_server THEN @ + 1 ELSE @]
    /\ UNCHANGED <<program, accept_loop, n_accepted, mutex, selector, security>>

\* serve_request returns, Ok or Err; the task ends (on Err by the unwrap's
\* panic) and drops the guard and the stream.
LbRelayEnd(c) ==
    /\ program = "lb"
    /\ conns[c].st = "Relaying"
    /\ mutex = c
    /\ \E ok \in BOOLEAN :
         /\ conns' = [conns EXCEPT ![c] = Close(conns[c], IF ok THEN "none" ELSE "relay")]
         /\ accept_loop' = IF ok THEN accept_loop ELSE SpawnedTaskPanic(accept_loop)
    /\ mutex' = 0
    /\ UNCHANGED <<program, n_accepted, lb, selector, security>>

\* No dispatcher runs.
DispParked ==
    /\ program = "none"
    /\ accept_loop = "stopped"
    /\ n_accepted = 0
    /\ conns = [c \in 1..MaxConns |-> IdleConn]
    /\ lb = LoadBalancer_with_backends(<<>>)
    /\ mutex = 0

\* ------------------------------------------------------------ the relay
\* One connection in stage Relaying: the client (stream a, `incoming`) and
\* the backend server (stream b, `outgoing`). The client's k-th byte is k,
\* the server's k-th byte is -k.

ClientStream(n) == [i \in 1..n |-> i]
ServerStream(n) == [i \in 1..n |-> -i]

Min(a, b) == IF a < b THEN a ELSE b

NetInit ==
    [client_out |-> <<>>, client_fin |-> FALSE, client_sent |-> 0,
     server_out |-> <<>>, server_fin |-> FALSE, server_sent |-> 0]

IoInit ==
    [from_client |-> <<>>, to_server |-> <<>>, server_wr_shut |-> FALSE,
     from_server |-> <<>>, to_client |-> <<>>, client_wr_shut |-> FALSE]

\* The bytes the source of a direction has sent and the relay has not read,
\* and whether the source has closed its write side.
SrcOut(dir) == IF dir = "a_to_b" THEN net.client_out ELSE net.server_out
SrcFin(dir) == IF dir = "a_to_b" THEN net.client_fin ELSE net.server_fin

\* read(): n bytes leave the source's stream.
NetAfterRead(dir, n) ==
    IF dir = "a_to_b"
    THEN [net EXCEPT !.client_out = SubSeq(@, n + 1, Len(@))]
    ELSE [net EXCEPT !.server_out = SubSeq(@, n + 1, Len(@))]

IoAfterRead(i, dir, data) ==
    IF dir = "a_to_b"
    THEN [i EXCEPT !.from_client = @ \o data]
    ELSE [i EXCEPT !.from_server = @ \o data]

\* A write that delivers a direction's bytes to the other direction's stream.
IoAfterWrite_crossed(i, dir, data) ==
    IF dir = "a_to_b"
    THEN [i EXCEPT !.to_client = @ \o data]
    ELSE [i EXCEPT !.to_server = @ \o data]

\* write(): client bytes go to the server stream, server bytes to the client.
IoAfterWrite(i, dir, data) ==
    IF dir = "a_to_b"
    THEN [i EXCEPT !.to_server = @ \o data]
    ELSE [i EXCEPT !.to_client = @ \o data]

\* shutdown(): EOF of a direction closes the write half of its destination.
IoAfterShutdown(i, dir) ==
    IF dir = "a_to_b"
    THEN [i EXCEPT !.server_wr_shut = TRUE]
    ELSE [i EXCEPT !.client_wr_shut = TRUE]

\* The peers of the relay, until the relay returns and drops both streams.
ClientSend ==
    /\ relay_result = "none"
    /\ ~net.client_fin
    /\ net.client_sent < MaxSend
    /\ net' = [net EXCEPT !.client_sent = @ + 1,
                          !.client_out = Append(@, net.client_sent + 1)]
    /\ UNCHANGED <<relay_impl, relay_result, io, proxy, cb>>

ClientShutdownWrite ==
    /\ relay_result = "none"
    /\ ~net.client_fin
    /\ net' = [net EXCEPT !.client_fin = TRUE]
    /\ UNCHANGED <<relay_impl, relay_result, io, proxy, cb>>

ServerSend ==
    /\ relay_result = "none"
    /\ ~net.server_fin
    /\ net.server_sent < MaxSend
    /\ net' = [net EXCEPT !.server_sent = @ + 1,
                          !.server_out = Append(@, -(net.server_sent + 1))]
    /\ UNCHANGED <<relay_impl, relay_result, io, proxy, cb>>

ServerShutdownWrite ==
    /\ relay_result = "none"
    /\ ~net.server_fin
    /\ net' = [net EXCEPT !.server_fin = TRUE]
    /\ UNCHANGED <<relay_impl, relay_result, io, proxy, cb>>

\* ---- main.rs: serve_request's proxy loop

\* let mut buffer = [0; 8192]; client_closed = false; server_closed = false
ProxyInit ==
    [pc |-> "client", client_closed |-> FALSE, server_closed |-> FALSE,
     buffer |-> [i \in 1..BufLen |-> 0], session_requests |-> 0]

\* stream.read(&mut buffer) returning Ok(n): the first n bytes are replaced.
ReadInto(buffer, data) ==
    [i \in 1..BufLen |-> IF i <= Len(data) THEN data[i] ELSE buffer[i]]

\* Forwarding the whole buffer instead of the n bytes read.
Forwarded_whole(buffer, n) == buffer

\* &buffer[0..n]
Forwarded(buffer, n) == SubSeq(buffer, 1, n)

\* while !client_closed && !server_closed
LoopContinues(p) == ~p.client_closed /\ ~p.server_closed

\* One half of a loop iteration: `if !closed { match src.read(..).await ..}`
\* for the direction dir, followed by pc_next. The tokio streams park the
\* task instead of returning WouldBlock, so those arms are never taken.
\*   Ok(n): write_all(&buffer[0..n]) writes all n bytes, or w < n and fails;
\*   Ok(0): the side is closed and the other stream's write half shut down;
\*   Err:   serve_request returns the error.
ProxyHalf(dir, pc_next) ==
    LET closed == IF dir = "a_to_b" THEN proxy.client_closed ELSE proxy.server_closed
        after(p) == IF pc_next = "client"
                    THEN IF LoopContinues(p) THEN "client" ELSE "done"
                    ELSE pc_next
    IN
    IF closed
    THEN /\ proxy' = [proxy EXCEPT !.pc = after(proxy)]
         /\ relay_result' = IF after(proxy) = "done" THEN "Ok" ELSE relay_result
         /\ UNCHANGED <<net, io>>
    ELSE
    \/ \E n \in 1..Min(BufLen, Len(SrcOut(dir))) : \E w \in 0..n :
         LET data == SubSeq(SrcOut(dir), 1, n)
             buf == ReadInto(proxy.buffer, data)
             out == Forwarded(buf, n)
             p == [proxy EXCEPT !.buffer = buf,
                     !.session_requests =
                         IF dir = "a_to_b" /\ w = n THEN @ + 1 ELSE @]
         IN  /\ net' = NetAfterRead(dir, n)
             /\ io' = IoAfterWrite(IoAfterRead(io, dir, data), dir,
                                   IF w = n THEN out ELSE SubSeq(out, 1, w))
             /\ IF w = n
                THEN /\ proxy' = [p EXCEPT !.pc = after(p)]
                     /\ relay_result' = IF after(p) = "done" THEN "Ok" ELSE "none"
                ELSE /\ proxy' = [p EXCEPT !.pc = "done"]
                     /\ relay_result' = "Err"
    \/ /\ SrcOut(dir) = <<>>
       /\ SrcFin(dir)
       /\ \E ok \in BOOLEAN :
            LET p == IF dir = "a_to_b" THEN [proxy EXCEPT !.client_closed = TRUE]
                                       ELSE [proxy EXCEPT !.server_closed = TRUE]
            IN  /\ io' = IF ok THEN IoAfterShutdown(io, dir) ELSE io
                /\ IF ok
                   THEN /\ proxy' = [p EXCEPT !.pc = after(p)]
                        /\ relay_result' = IF after(p) = "done" THEN "Ok" ELSE "none"
                   ELSE /\ proxy' = [p EXCEPT !.pc = "done"]
                        /\ relay_result' = "Err"
       /\ UNCHANGED net
    \/ /\ proxy' = [proxy EXCEPT !.pc = "done"]
       /\ relay_result' = "Err"
       /\ UNCHANGED <<net, io>>

\* Client -> Server
ProxyClientToServer ==
    /\ relay_impl = "proxy_loop"
    /\ relay_result = "none"
    /\ proxy.pc = "client"
    /\ ProxyHalf("a_to_b", "server")
    /\ UNCHANGED <<relay_impl, cb>>

\* Server -> Client, then the loop's test
ProxyServerToClient ==
    /\ relay_impl = "proxy_loop"
    /\ relay_result = "none"
    /\ proxy.pc = "server"
    /\ ProxyHalf("b_to_a", "client")
    /\ UNCHANGED <<relay_impl, cb>>

\* ---- load_balancer.rs: proxy_connection's copy_bidirectional(incoming,
\* outgoing): two transfers polled together, each with a buffer of its own;
\* a transfer that read EOF and wrote all it read shuts down the write half
\* of its destination; the call returns Ok when both are done and Err at
\* the first I/O error.

Dirs == {"a_to_b", "b_to_a"}

CbInit ==
    [d \in Dirs |-> [st |-> "running", buf |-> <<>>, read_done |-> FALSE]]

CbRead(dir) ==
    /\ relay_impl = "copy_bidirectional"
    /\ relay_result = "none"
    /\ cb[dir].st = "running"
    /\ ~cb[dir].read_done
    /\ \/ \E n \in 1..Min(BufLen - Len(cb[dir].buf), Len(SrcOut(dir))) :
            LET data == SubSeq(SrcOut(dir), 1, n) IN
            /\ net' = NetAfterRead(dir, n)
            /\ io' = IoAfterRead(io, dir, data)
            /\ cb' = [cb EXCEPT ![dir].buf = @ \o data]
       \/ /\ SrcOut(dir) = <<>>
          /\ SrcFin(dir)
          /\ cb' = [cb EXCEPT ![dir].read_done = TRUE]
          /\ UNCHANGED <<net, io>>
    /\ UNCHANGED <<relay_impl, relay_result, proxy>>

CbWrite(dir) ==
    /\ relay_impl = "copy_bidirectional"
    /\ relay_result = "none"
    /\ cb[dir].st = "running"
    /\ \E k \in 1..Len(cb[dir].buf) :
         /\ io' = IoAfterWrite(io, dir, SubSeq(cb[dir].buf, 1, k))
         /\ cb' = [cb EXCEPT ![dir].buf = SubSeq(@, k + 1, Len(@))]
    /\ UNCHANGED <<relay_impl, relay_result, net, proxy>>

CbShutdown(dir) ==
    /\ relay_impl = "copy_bidirectional"
    /\ relay_result = "none"
    /\ cb[dir].st = "running"
    /\ cb[dir].read_done
    /\ cb[dir].buf = <<>>
    /\ io' = IoAfterShutdown(io, dir)
    /\ cb' = [cb EXCEPT ![dir].st = "done"]
    /\ UNCHANGED <<relay_impl, relay_result, net, proxy>>

\* copy_bidirectional(..).await? : Ok((_, _)) once both transfers are done.
CbReturn ==
    /\ relay_impl = "copy_bidirectional"
    /\ relay_result = "none"
    /\ \A d \in Dirs : cb[d].st = "done"
    /\ relay_result' = "Ok"
    /\ UNCHANGED <<relay_impl, net, io, proxy, cb>>

\* copy_bidirectional(..).await? : a read, write or shutdown fails.
CbError ==
    /\ relay_impl = "copy_bidirectional"
    /\ relay_result = "none"
    /\ relay_result' = "Err"
    /\ UNCHANGED <<relay_impl, net, io, proxy, cb>>

\* No relay runs.
RelayParked ==
    /\ relay_impl = "none"
    /\ relay_result = "none"
    /\ net = NetInit
    /\ io = IoInit
    /\ proxy = ProxyInit
    /\ cb = CbInit

\* ---------------------------------------------------- config.rs, peer.rs

\* enum NetworkTarget { Url(url::Url), SocketAddr(std::net::SocketAddr) }.
\* Of a target the model keeps its variant, its text up to the path (host),
\* whether url.port_or_known_default() is Some (port), whether the url can
\* be a base (path_segments_mut() is Ok) and the path segments pushed to it.
SocketAddrTarget ==
    [kind |-> "SocketAddr", host |-> "127.0.0.1:3000", port |-> TRUE,
     base |-> FALSE, path |-> <<>>]

UrlTarget(host, port, base) ==
    [kind |-> "Url", host |-> host, port |-> port, base |-> base, path |-> <<>>]

\* The targets a configuration or an address string gives:
\* a socket address, an http url, a url of a scheme without a default port,
\* and a url that cannot be a base.
Targets ==
    {SocketAddrTarget,
     UrlTarget("http://example.com", TRUE, TRUE),
     UrlTarget("app://example.com", FALSE, TRUE),
     UrlTarget("mailto:ops@example.com", FALSE, FALSE)}

\* The text of a path: each segment after a "/".
RECURSIVE PathString(_)
PathString(segs) ==
    IF segs = <<>> THEN <<>>
    ELSE <<"/", Head(segs)>> \o PathString(Tail(segs))

\* NetworkTarget::as_string, as the sequence of the text's pieces.
NetworkTarget_as_string(t) ==
    IF t.kind = "SocketAddr" THEN <<t.host>>
    ELSE <<t.host>> \o PathString(t.path)

\* push as its doc comment describes it: "will silently return if performed
\* on a SocketAddr".
NetworkTarget_push_silent(t, path) ==
    IF t.kind = "Url"
    THEN IF t.base
         THEN [t |-> [t EXCEPT !.path = Append(@, path)], ret |-> "Ok"]
         ELSE [t |-> t, ret |-> "InvalidUrlBase"]
    ELSE [t |-> t, ret |-> "Ok"]

\* NetworkTarget::push: the target afterwards and the result.
NetworkTarget_push(t, path) ==
    IF t.kind = "Url"
    THEN IF t.base
         THEN [t |-> [t EXCEPT !.path = Append(@, path)], ret |-> "Ok"]
         ELSE [t |-> t, ret |-> "InvalidUrlBase"]
    ELSE [t |-> t, ret |-> "PushToSocketAddr"]

\* struct PeerConfig { address, weight: Option<u32>, .. } and the field of
\* BackendOptions that from_config reads.
PeerConfigs ==
    [address : Targets, weight : {None} \cup {Some(w) : w \in 0..MaxWeight}]

BackendOptionsSet == [health_endpoint : {None, Some("/health")}]

\* Peer::new(addr), for a string that NetworkTarget::from_str parses; addr
\* is the target parsed.
Peer_new(addr) ==
    [healthy |-> FALSE, address |-> addr, weight |-> 1,
     health_endpoint |-> None]

\* Peer::from_config
Peer_from_config(options, backend_config) ==
    [healthy |-> FALSE,
     address |-> options.address,
     weight |-> IF options.weight = None THEN 1 ELSE options.weight[1],
     health_endpoint |-> IF backend_config.health_endpoint # None
                         THEN Some(options.address) ELSE None]

\* Peer::health_check up to its connect: the early return it takes
\* ("no_endpoint", "no_port") or the connect it makes, for a SocketAddr on
\* a socket that tcpsocket_from_address must first open ("socket").
Peer_health_check_begin(p) ==
    IF p.health_endpoint = None THEN "no_endpoint"
    ELSE IF p.address.kind = "SocketAddr" THEN "socket"
    ELSE IF ~p.address.port THEN "no_port"
    ELSE "connect"

\* health_check whose timeout arm returns the error arm's result.
Peer_health_check_end_timeout_as_error(p, outcome) ==
    IF outcome = "connected"
    THEN [peer |-> [p EXCEPT !.healthy = TRUE], ret |-> "Ok(true)"]
    ELSE [peer |-> [p EXCEPT !.healthy = FALSE], ret |-> "Err"]

\* Peer::health_check: the three arms of `match timeout(connect_timeout,
\* future).await`: Ok(Ok(_)), Ok(Err(e)), Err(_).
Peer_health_check_end(p, outcome) ==
    CASE outcome = "connected" ->
           [peer |-> [p EXCEPT !.healthy = TRUE], ret |-> "Ok(true)"]
      [] outcome = "conn_err" ->
           [peer |-> [p EXCEPT !.healthy = FALSE], ret |-> "Err"]
      [] outcome = "timed_out" ->
           [peer |-> [p EXCEPT !.healthy = FALSE], ret |-> "Ok(false)"]

\* No probe was made yet.
ProbeInit ==
    [pc |-> "idle", timeout |-> 0, elapsed |-> 0, ret |-> None,
     outcome |-> "none", n |-> 0]

TargetInit(t) == [t |-> t, before |-> t, seg |-> None, ret |-> None]

\* peer.health_check(connect_timeout) is called; the call runs to its first
\* await or to an early return.
PeerProbeStart(connect_timeout) ==
    /\ probe.pc # "connecting"
    /\ probe.n < MaxProbes
    /\ LET b == Peer_health_check_begin(the_peer)
           early(why) == [probe EXCEPT !.pc = "returned", !.ret = Some("Err"),
                             !.outcome = why, !.n = @ + 1,
                             !.timeout = connect_timeout, !.elapsed = 0]
           pending == [probe EXCEPT !.pc = "connecting", !.ret = None,
                          !.n = @ + 1,
                          !.timeout = connect_timeout, !.elapsed = 0]
       IN  CASE b = "no_endpoint" -> probe' = early("no_endpoint")
             [] b = "no_port" -> probe' = early("no_port")
             [] b = "socket" -> \/ probe' = early("socket_err")
                                \/ probe' = pending
             [] b = "connect" -> probe' = pending
    /\ UNCHANGED <<the_peer, peer_src, target>>

\* Time passes while the connect is pending.
PeerProbeTick ==
    /\ probe.pc = "connecting"
    /\ probe.elapsed < probe.timeout
    /\ probe' = [probe EXCEPT !.elapsed = @ + 1]
    /\ UNCHANGED <<the_peer, peer_src, target>>

\* The pending connect resolves: completed, failed, or the timer fired.
PeerProbeEnd(outcome) ==
    /\ probe.pc = "connecting"
    /\ outcome = "timed_out" => probe.elapsed = probe.timeout
    /\ LET r == Peer_health_check_end(the_peer, outcome) IN
        /\ the_peer' = r.peer
        /\ probe' = [probe EXCEPT !.pc = "returned", !.ret = Some(r.ret),
                                  !.outcome = outcome]
    /\ UNCHANGED <<peer_src, target>>

\* The peer accepts the connection.
PeerConnectCompletes == PeerProbeEnd("connected")
\* The connection is refused or fails otherwise.
PeerConnectFails == PeerProbeEnd("conn_err")
\* tokio::time::timeout's timer fires at the deadline.
PeerProbeTimeout == PeerProbeEnd("timed_out")

\* target.push(seg)
TargetPush(seg) ==
    /\ Len(target.t.path) < MaxSegs
    /\ LET r == NetworkTarget_push(target.t, seg) IN
        target' = [t |-> r.t, before |-> target.t, seg |-> Some(seg),
                   ret |-> Some(r.ret)]
    /\ UNCHANGED <<the_peer, peer_src, probe>>

\* No peer is under observation.
PeerParked ==
    /\ the_peer = Peer_new(SocketAddrTarget)
    /\ peer_src = [by |-> "none"]
    /\ probe = ProbeInit
    /\ target = TargetInit(SocketAddrTarget)

\* ---------------------------------------------------- config.rs, backend.rs

\* Option<u32> of seconds, as a configuration gives it.
OptSecs == {None} \cup {Some(s) : s \in 1..MaxSecs}

\* struct BackendOptions, the fields Backend::from_config reads.
BackendConfigs ==
    [health_endpoint : {None, Some("/health")},
     health_check_interval_seconds : OptSecs,
     health_check_timeout_seconds : OptSecs,
     request_timeout_seconds : OptSecs,
     failed_request_threshold : {None, Some(1)},
     rate_limit : {None}]

\* time::Duration::from_secs(secs.into())
Duration_from_secs(secs) == [secs |-> secs, nanos |-> 0]

\* BackendOptions::get_health_check_interval
BackendOptions_get_health_check_interval(config) ==
    IF config.health_check_interval_seconds # None
    THEN Some(Duration_from_secs(config.health_check_interval_seconds[1]))
    ELSE None

\* BackendOptions::get_health_check_timeout
BackendOptions_get_health_check_timeout(config) ==
    IF config.health_check_timeout_seconds # None
    THEN Some(Duration_from_secs(config.health_check_timeout_seconds[1]))
    ELSE None

\* BackendOptions::get_request_timeout: `if let Some(timeout) =
\* self.health_check_timeout_seconds`.
BackendOptions_get_request_timeout(config) ==
    IF config.health_check_timeout_seconds # None
    THEN Some(Duration_from_secs(config.health_check_timeout_seconds[1]))
    ELSE None

\* Backend::from_config
Backend_from_config(config) ==
    [health_endpoint |-> config.health_endpoint,
     health_check_interval |-> BackendOptions_get_health_check_interval(config),
     health_check_timeout |-> BackendOptions_get_health_check_timeout(config),
     request_timeout |-> BackendOptions_get_request_timeout(config),
     failed_request_threshold |-> config.failed_request_threshold,
     rate_limit |-> config.rate_limit]

\* let backend = Backend::from_config(&config)
BackendFromConfig ==
    /\ backend = None
    /\ backend' = Some(Backend_from_config(backend_cfg))
    /\ UNCHANGED backend_cfg

\* No backend group is under observation.
CfgParked ==
    /\ backend_cfg = [health_endpoint |-> None,
                      health_check_interval_seconds |-> None,
                      health_check_timeout_seconds |-> None,
                      request_timeout_seconds |-> None,
                      failed_request_threshold |-> None,
                      rate_limit |-> None]
    /\ backend = None

\* ------------------------------------------------------------- pool.rs
\* ThreadPool { workers, sender } and its Worker threads. The workers are
\* 1..size (0..size-1 in the code), the jobs 1..MaxJobs in the order sent.
\*   sender   "live" until the pool's fields are dropped, after drop returns
\*   queue    the channel: the jobs sent and not yet received
\*   lock     the Mutex around the receiver: 0 or the worker holding it
\*   pc       per worker: "idle" (before receiver.lock()), "recv" (in
\*            recv() with the lock), "run" (in job()), "exited"
\*   ran_by   per job, the workers that ran it
\*   drop     "none", "joining" (in Drop::drop), "returned"
\*   joined   workers whose join has returned
\*   caller   "ok", or "panicked" when execute's send(..).expect failed

\* ThreadPool::new(size)
ThreadPool_new(size) ==
    [size |-> size, sender |-> "live", queue |-> <<>>, lock |-> 0,
     pc |-> [w \in 1..size |-> "idle"],
     job |-> [w \in 1..size |-> 0],
     ran_by |-> [j \in 1..MaxJobs |-> <<>>],
     sent |-> 0, drop |-> "none", joined |-> 0, caller |-> "ok"]

Workers == 1..tp.size

\* Every worker thread has ended, and with the last one the receiver.
ReceiverDropped == \A w \in Workers : tp.pc[w] = "exited"

\* pool.execute(f): the job is sent; with no receiver left send returns Err
\* and expect panics.
TpExecute ==
    /\ tp.drop = "none"
    /\ tp.caller = "ok"
    /\ tp.sent < MaxJobs
    /\ tp' = IF ReceiverDropped
             THEN [tp EXCEPT !.caller = "panicked"]
             ELSE [tp EXCEPT !.sent = @ + 1, !.queue = Append(@, tp.sent + 1)]

\* A worker that keeps the receiver's lock while its job runs.
LockAfterRecv_held(w) == w

\* `let message = receiver.lock().unwrap().recv();` -- the guard is a
\* temporary of the let statement and is dropped at its end, before job().
LockAfterRecv(w) == 0

\* Worker: receiver.lock() is granted.
WorkerLock(w) ==
    /\ tp.pc[w] = "idle"
    /\ tp.lock = 0
    /\ tp' = [tp EXCEPT !.lock = w, !.pc[w] = "recv"]

\* Worker: recv() returns, Ok(job) when a job is in the channel, Err when the
\* channel is empty and its sender was dropped; otherwise it blocks.
WorkerRecv(w) ==
    /\ tp.pc[w] = "recv"
    /\ IF tp.queue # <<>>
       THEN LET j == Head(tp.queue) IN
            tp' = [tp EXCEPT !.queue = Tail(@), !.job[w] = j,
                             !.ran_by[j] = Append(@, w),
                             !.pc[w] = "run", !.lock = LockAfterRecv(w)]
       ELSE /\ tp.sender = "dropped"
            /\ tp' = [tp EXCEPT !.pc[w] = "exited", !.lock = 0]

\* Worker: job() returns and the loop goes on, or job() panics and the
\* thread ends.
WorkerFinish(w) ==
    /\ tp.pc[w] = "run"
    /\ \E panics \in BOOLEAN :
         tp' = [tp EXCEPT !.job[w] = 0,
                          !.lock = IF @ = w THEN 0 ELSE @,
                          !.pc[w] = IF panics THEN "exited" ELSE "idle"]

\* drop(pool): Drop::drop starts to join the workers in order.
TpDrop ==
    /\ tp.drop = "none"
    /\ tp' = [tp EXCEPT !.drop = "joining"]

\* Drop::drop: worker.thread.join() returns (Err, logged, for a worker that
\* panicked); after the last join drop returns and the sender is dropped.
TpJoin ==
    /\ tp.drop = "joining"
    /\ tp.joined < tp.size
    /\ tp.pc[tp.joined + 1] = "exited"
    /\ tp' = [tp EXCEPT !.joined = @ + 1,
                        !.drop = IF tp.joined + 1 = tp.size THEN "returned" ELSE @,
                        !.sender = IF tp.joined + 1 = tp.size THEN "dropped" ELSE @]

\* No thread pool is under observation.
PoolParked == tp = ThreadPool_new(1)

\* ------------------------------------------------------ specifications

\* The stand-alone RoundRobin selector.
InitSel ==
    /\ selector = RoundRobin_new
    /\ sel_ret = None /\ sel_calls = 0 /\ sel_fresh = TRUE /\ sel_hist = <<>>
    /\ sel_health \in [Peers -> BOOLEAN]
    /\ SecInit /\ DispParked /\ RelayParked /\ PeerParked /\ CfgParked /\ PoolParked

NextSel ==
    \/ \E peer \in Peers : SelAddPeer(peer) /\ UNCHANGED <<secVars, dispVars, relayVars, peerVars, cfgVars, poolVars>>
    \/ SelNext /\ UNCHANGED <<secVars, dispVars, relayVars, peerVars, cfgVars, poolVars>>

SpecSel == InitSel /\ [][NextSel]_vars

\* The stand-alone Security policy.
InitSec ==
    SelInit /\ SecInit /\ DispParked /\ RelayParked /\ PeerParked /\ CfgParked /\ PoolParked

NextSec ==
    \/ \E ip \in IPs : SecAddToWhitelist(ip) /\ UNCHANGED <<selVars, dispVars, relayVars, peerVars, cfgVars, poolVars>>
    \/ \E ip \in IPs : SecAddToBlacklist(ip) /\ UNCHANGED <<selVars, dispVars, relayVars, peerVars, cfgVars, poolVars>>
    \/ \E ip \in IPs : SecRemoveFromWhitelist(ip) /\ UNCHANGED <<selVars, dispVars, relayVars, peerVars, cfgVars, poolVars>>
    \/ \E ip \in IPs : SecRemoveFromBlacklist(ip) /\ UNCHANGED <<selVars, dispVars, relayVars, peerVars, cfgVars, poolVars>>
    \/ \E ip \in IPs : SecIsAllowed(ip) /\ UNCHANGED <<selVars, dispVars, relayVars, peerVars, cfgVars, poolVars>>

SpecSec == InitSec /\ [][NextSec]_vars

\* The dispatcher: either program, started from any configuration (the
\* peers 1..n in configuration order, any whitelist and blacklist).
InitDisp ==
    /\ program \in {"nlb", "lb"}
    /\ accept_loop = "running"
    /\ n_accepted = 0
    /\ conns = [c \in 1..MaxConns |-> IdleConn]
    /\ mutex = 0
    /\ sel_ret = None /\ sel_calls = 0 /\ sel_fresh = TRUE
    /\ sel_hist = <<>> /\ sel_health = [p \in Peers |-> FALSE]
    /\ sec_query = None
    /\ RelayParked
    /\ PeerParked /\ CfgParked /\ PoolParked
    /\ \E n \in 0..MaxPool, wl \in SUBSET IPs, bl \in SUBSET IPs :
         IF program = "nlb"
         THEN LET cfg == [peers |-> [i \in 1..n |-> i],
                          security |-> [ip_whitelist |-> wl, ip_blacklist |-> bl]]
                  b == NetworkLoadBalancer_new_from_config(cfg)
              IN  /\ security = b.security
                  /\ selector = b.selector
                  /\ lb = LoadBalancer_with_backends(<<>>)
         ELSE /\ security = Security_new
              /\ selector = RoundRobin_new
              /\ lb = LoadBalancer_with_backends([i \in 1..n |-> i])

NextDisp ==
    \/ \E ip \in IPs : NlbAccept(ip) /\ UNCHANGED <<sel_ret, sel_calls, sel_fresh, sel_hist, sel_health, sec_query, relayVars, peerVars, cfgVars, poolVars>>
    \/ NlbAcceptErr /\ UNCHANGED <<sel_ret, sel_calls, sel_fresh, sel_hist, sel_health, sec_query, relayVars, peerVars, cfgVars, poolVars>>
    \/ \E c \in 1..MaxConns : NlbTaskStart(c) /\ UNCHANGED <<sel_ret, sel_calls, sel_fresh, sel_hist, sel_health, sec_query, relayVars, peerVars, cfgVars, poolVars>>
    \/ \E c \in 1..MaxConns : NlbConnectDone(c) /\ UNCHANGED <<sel_ret, sel_calls, sel_fresh, sel_hist, sel_health, sec_query, relayVars, peerVars, cfgVars, poolVars>>
    \/ \E c \in 1..MaxConns : NlbRelayChunk(c) /\ UNCHANGED <<sel_ret, sel_calls, sel_fresh, sel_hist, sel_health, sec_query, relayVars, peerVars, cfgVars, poolVars>>
    \/ \E c \in 1..MaxConns : NlbRelayEnd(c) /\ UNCHANGED <<sel_ret, sel_calls, sel_fresh, sel_hist, sel_health, sec_query, relayVars, peerVars, cfgVars, poolVars>>
    \/ \E ip \in IPs : LbAccept(ip) /\ UNCHANGED <<sel_ret, sel_calls, sel_fresh, sel_hist, sel_health, sec_query, relayVars, peerVars, cfgVars, poolVars>>
    \/ LbAcceptErr /\ UNCHANGED <<sel_ret, sel_calls, sel_fresh, sel_hist, sel_health, sec_query, relayVars, peerVars, cfgVars, poolVars>>
    \/ \E c \in 1..MaxConns : LbServeStart(c) /\ UNCHANGED <<sel_ret, sel_calls, sel_fresh, sel_hist, sel_health, sec_query, relayVars, peerVars, cfgVars, poolVars>>
    \/ \E c \in 1..MaxConns : LbConnectDone(c) /\ UNCHANGED <<sel_ret, sel_calls, sel_fresh, sel_hist, sel_health, sec_query, relayVars, peerVars, cfgVars, poolVars>>
    \/ \E c \in 1..MaxConns : LbRelayChunk(c) /\ UNCHANGED <<sel_ret, sel_calls, sel_fresh, sel_hist, sel_health, sec_query, relayVars, peerVars, cfgVars, poolVars>>
    \/ \E c \in 1..MaxConns : LbRelayEnd(c) /\ UNCHANGED <<sel_ret, sel_calls, sel_fresh, sel_hist, sel_health, sec_query, relayVars, peerVars, cfgVars, poolVars>>

SpecDisp == InitDisp /\ [][NextDisp]_vars

\* One Peer, built by Peer::new or by Peer::from_config from any
\* configuration entry, its health probes, and pushes on a clone of its
\* address (the `base_health_addr` of from_config).
InitPeer ==
    /\ SelInit /\ SecInit /\ DispParked /\ RelayParked /\ CfgParked /\ PoolParked
    /\ probe = ProbeInit
    /\ \/ \E addr \in Targets :
            /\ peer_src = [by |-> "new", addr |-> addr]
            /\ the_peer = Peer_new(addr)
       \/ \E options \in PeerConfigs, backend_config \in BackendOptionsSet :
            /\ peer_src = [by |-> "from_config", options |-> options,
                           backend_config |-> backend_config]
            /\ the_peer = Peer_from_config(options, backend_config)
    /\ target = TargetInit(the_peer.address)

NextPeer ==
    \/ \E t \in 1..MaxTimeout : PeerProbeStart(t) /\ UNCHANGED <<selVars, secVars, dispVars, relayVars, cfgVars, poolVars>>
    \/ PeerProbeTick /\ UNCHANGED <<selVars, secVars, dispVars, relayVars, cfgVars, poolVars>>
    \/ PeerConnectCompletes /\ UNCHANGED <<selVars, secVars, dispVars, relayVars, cfgVars, poolVars>>
    \/ PeerConnectFails /\ UNCHANGED <<selVars, secVars, dispVars, relayVars, cfgVars, poolVars>>
    \/ PeerProbeTimeout /\ UNCHANGED <<selVars, secVars, dispVars, relayVars, cfgVars, poolVars>>
    \/ \E seg \in Segs : TargetPush(seg) /\ UNCHANGED <<selVars, secVars, dispVars, relayVars, cfgVars, poolVars>>

SpecPeer == InitPeer /\ [][NextPeer]_vars

\* Sequences over S of length at most n.
SeqsUpTo(S, n) == UNION {[1..k -> S] : k \in 0..n}

\* The stand-alone RoundRobinSelector of a LoadBalancer over a fixed list of
\* backends.
InitRrs ==
    /\ SelInit /\ SecInit /\ RelayParked /\ PeerParked /\ CfgParked /\ PoolParked
    /\ program = "none"
    /\ accept_loop = "stopped"
    /\ n_accepted = 0
    /\ conns = [c \in 1..MaxConns |-> IdleConn]
    /\ mutex = 0
    /\ \E services \in SeqsUpTo(Peers, MaxPool) :
         lb = LoadBalancer_with_backends(services)

NextRrs ==
    \/ LbSelectBackend /\ UNCHANGED <<secVars, relayVars, peerVars, cfgVars, poolVars>>

SpecRrs == InitRrs /\ [][NextRrs]_vars

\* A backend group's configuration and the Backend built from it.
InitBackend ==
    /\ SelInit /\ SecInit /\ DispParked /\ RelayParked /\ PeerParked /\ PoolParked
    /\ backend_cfg \in BackendConfigs
    /\ backend = None

NextBackend ==
    \/ BackendFromConfig /\ UNCHANGED <<selVars, secVars, dispVars, relayVars, peerVars, poolVars>>

SpecBackend == InitBackend /\ [][NextBackend]_vars

\* A ThreadPool of any size, the jobs sent to it and its drop.
InitPool ==
    /\ SelInit /\ SecInit /\ DispParked /\ RelayParked /\ PeerParked /\ CfgParked
    /\ \E size \in 1..MaxWorkers : tp = ThreadPool_new(size)

NextPool ==
    \/ TpExecute /\ UNCHANGED <<selVars, secVars, dispVars, relayVars, peerVars, cfgVars>>
    \/ \E w \in Workers : WorkerLock(w) /\ UNCHANGED <<selVars, secVars, dispVars, relayVars, peerVars, cfgVars>>
    \/ \E w \in Workers : WorkerRecv(w) /\ UNCHANGED <<selVars, secVars, dispVars, relayVars, peerVars, cfgVars>>
    \/ \E w \in Workers : WorkerFinish(w) /\ UNCHANGED <<selVars, secVars, dispVars, relayVars, peerVars, cfgVars>>
    \/ TpDrop /\ UNCHANGED <<selVars, secVars, dispVars, relayVars, peerVars, cfgVars>>
    \/ TpJoin /\ UNCHANGED <<selVars, secVars, dispVars, relayVars, peerVars, cfgVars>>

SpecPool == InitPool /\ [][NextPool]_vars

\* The relay of one connection, by either implementation.
InitRelay ==
    /\ SelInit /\ SecInit /\ DispParked /\ PeerParked /\ CfgParked /\ PoolParked
    /\ relay_impl \in {"proxy_loop", "copy_bidirectional"}
    /\ relay_result = "none"
    /\ net = NetInit
    /\ io = IoInit
    /\ proxy = ProxyInit
    /\ cb = CbInit

NextRelay ==
    \/ ClientSend /\ UNCHANGED <<selVars, secVars, dispVars, peerVars, cfgVars, poolVars>>
    \/ ClientShutdownWrite /\ UNCHANGED <<selVars, secVars, dispVars, peerVars, cfgVars, poolVars>>
    \/ ServerSend /\ UNCHANGED <<selVars, secVars, dispVars, peerVars, cfgVars, poolVars>>
    \/ ServerShutdownWrite /\ UNCHANGED <<selVars, secVars, dispVars, peerVars, cfgVars, poolVars>>
    \/ ProxyClientToServer /\ UNCHANGED <<selVars, secVars, dispVars, peerVars, cfgVars, poolVars>>
    \/ ProxyServerToClient /\ UNCHANGED <<selVars, secVars, dispVars, peerVars, cfgVars, poolVars>>
    \/ \E dir \in Dirs : CbRead(dir) /\ UNCHANGED <<selVars, secVars, dispVars, peerVars, cfgVars, poolVars>>
    \/ \E dir \in Dirs : CbWrite(dir) /\ UNCHANGED <<selVars, secVars, dispVars, peerVars, cfgVars, poolVars>>
    \/ \E dir \in Dirs : CbShutdown(dir) /\ UNCHANGED <<selVars, secVars, dispVars, peerVars, cfgVars, poolVars>>
    \/ CbReturn /\ UNCHANGED <<selVars, secVars, dispVars, peerVars, cfgVars, poolVars>>
    \/ CbError /\ UNCHANGED <<selVars, secVars, dispVars, peerVars, cfgVars, poolVars>>

SpecRelay == InitRelay /\ [][NextRelay]_vars

\* ---------------------------------------------------------------- claims

\* C1: on a fresh RoundRobin to which peers P0..P(n-1) were added in order
\* and on which only next() was called since, the k-th next() returns
\* P((k-1) mod n): A, B, C, A, ... over [A,B,C].
C1_KthCallReturnsKMinus1ModN ==
    (sel_fresh /\ sel_calls >= 1 /\ Len(selector.pool) >= 1) =>
        sel_ret = Some(selector.pool[((sel_calls - 1) % Len(selector.pool)) + 1])

\* C2: next() on an empty pool returns None (no panic) and leaves the cursor
\* and the pool unchanged.
C2_EmptyPoolNextIsNone ==
    [][(sel_calls' = sel_calls + 1 /\ Len(selector.pool) = 0) =>
          (sel_ret' = None /\ selector' = selector)]_vars

\* C2 witness: next() was called on an empty pool.
C2_Witness ==
    sel_calls >= 2 /\ Len(selector.pool) = 0 /\ sel_ret = None

Range(seq) == {seq[i] : i \in DOMAIN seq}

Accepted == 1..n_accepted

\* The connection's client passed the filter: selection was reached.
ReachedSelection(c) == "Selected" \in Range(conns[c].trace)

\* The security policy of the running program rejects the connection's IP.
PolicyRejects(c) ==
    IF program = "nlb"
    THEN ~Security_is_allowed(security, conns[c].ip)
    ELSE LoadBalancer_rejects(lb, Some(conns[c].ip))

C5_RejectedGoesDirectlyToClosed ==
    /\ [](\A c \in Accepted :
            (PolicyRejects(c) /\ conns[c].st # "Accepted") =>
                /\ conns[c].trace = <<"Accepted", "Filtered", "Closed">>
                /\ ~conns[c].outbound
                /\ ~conns[c].relayed
                /\ conns[c].peer = None)
    /\ [][\A c \in 1..MaxConns :
            (conns[c].st # "Closed" /\ conns'[c].fail = "rejected") =>
                accept_loop' = accept_loop]_vars

\* C5 witness: a rejected connection is closed, and a connection accepted
\* after it is relaying.
C5_Witness ==
    /\ n_accepted = 2
    /\ PolicyRejects(1)
    /\ conns[1].st = "Closed"
    /\ conns[2].st = "Relaying"
    /\ accept_loop = "running"

\* The connection's history is a prefix of Accepted, Filtered, Selected,
\* Connected, Relaying, followed or not by Closed, and ends in its stage.
TraceInOrder(c) ==
    LET t == conns[c].trace
        closed == t # <<>> /\ t[Len(t)] = "Closed"
        body == IF closed THEN SubSeq(t, 1, Len(t) - 1) ELSE t
    IN  /\ Len(body) <= Len(Stages)
        /\ \A i \in 1..Len(body) : body[i] = Stages[i]
        /\ conns[c].st = IF t = <<>> THEN "Idle" ELSE t[Len(t)]

\* C6: every accepted connection moves through Accepted, Filtered, Selected,
\* Connected, Relaying, Closed in that order, the only other transitions
\* being exits to Closed; it reaches Relaying only if its IP was allowed, a
\* peer was selected, the target resolved and the connect succeeded; and
\* Closed is terminal.
C6_StagesInOrder ==
    /\ [](\A c \in 1..MaxConns :
            /\ TraceInOrder(c)
            /\ "Relaying" \in Range(conns[c].trace) =>
                  /\ ~PolicyRejects(c)
                  /\ conns[c].peer # None
                  /\ conns[c].resolved
                  /\ conns[c].outbound)
    /\ [][\A c \in 1..MaxConns :
            conns[c].st = "Closed" => conns'[c] = conns[c]]_vars

\* C6 witness: a connection of the NetworkLoadBalancer went through every
\* stage.
C6_Witness ==
    /\ program = "nlb"
    /\ \E c \in Accepted :
         conns[c].trace = <<"Accepted", "Filtered", "Selected", "Connected",
                            "Relaying", "Closed">>

\* C7: a per-connection failure (no peer, unresolvable target, connect
\* failure, relay error) closes only that connection: the accept loop is as
\* it was, every other connection is untouched, the pool keeps its peers
\* and their order, and the balancer's lock is free again.
C7_FailureIsIsolated ==
    [][\A c \in 1..MaxConns :
         (/\ conns[c].st # "Closed"
          /\ conns'[c].st = "Closed"
          /\ conns'[c].fail \in {"no_peer", "unresolvable", "connect", "relay"})
         => /\ accept_loop' = accept_loop
            /\ \A d \in 1..MaxConns \ {c} : conns'[d] = conns[d]
            /\ selector'.pool = selector.pool
            /\ lb'.services = lb.services
            /\ (program = "lb" => mutex' = 0)]_vars

\* C7 witness: after a connection failed on an unresolvable target, the
\* accept loop runs and another connection is relaying.
C7_Witness ==
    /\ n_accepted = 2
    /\ \E c \in Accepted :
         /\ conns[c].fail = "unresolvable"
         /\ conns[3 - c].st = "Relaying"
         /\ conns[3 - c].relayed
    /\ accept_loop = "running"

\* The connections that passed the filter and were given a peer.
Admitted == {c \in Accepted : conns[c].peer # None}

\* C8: with 3 configured peers, round robin and an admitting policy, the
\* k-th admitted connection is proxied to peer ((k-1) mod 3)+1: peer1,
\* peer2, peer3, peer1.
C8_KthConnectionGoesToKthPeer ==
    (program = "nlb" /\ Len(selector.pool) = 3) =>
        \A c \in Admitted :
            LET k == Cardinality({d \in Admitted : d <= c})
            IN  conns[c].peer = Some(selector.pool[((k - 1) % 3) + 1])

\* ---- claims about the relay

IsPrefix(s, t) == Len(s) <= Len(t) /\ \A i \in 1..Len(s) : s[i] = t[i]

\* C9: EOF on one direction only shuts down the write half of the other
\* stream; the relay completes only when both directions have completed, so
\* a client that closes its write side while the backend keeps sending
\* still receives everything the backend sends.
C9_CompletesWhenBothDirectionsDo ==
    relay_result = "Ok" =>
        /\ io.server_wr_shut /\ io.client_wr_shut
        /\ io.to_server = ClientStream(net.client_sent)
        /\ io.to_client = ServerStream(net.server_sent)

\* C10: at every point of a relay the bytes written to the backend are a
\* prefix of the bytes read from the client, unmodified and in order, and
\* the bytes written to the client a prefix of those read from the backend;
\* no byte of one direction reaches the other direction's destination.
C10_ByteTransparent ==
    /\ IsPrefix(io.to_server, io.from_client)
    /\ IsPrefix(io.from_client, ClientStream(net.client_sent))
    /\ IsPrefix(io.to_client, io.from_server)
    /\ IsPrefix(io.from_server, ServerStream(net.server_sent))

\* C10 witness: the proxy loop has forwarded two bytes in each direction.
C10_Witness ==
    /\ relay_impl = "proxy_loop"
    /\ io.to_server = <<1, 2>>
    /\ io.to_client = <<-1, -2>>

\* ---- the relay under the scheduling the runtime gives it
\* A relay whose next read, write or shutdown can complete is polled again
\* and completes it. Nothing obliges the client or the server to send or to
\* close, and nothing obliges an I/O error to happen.

ProxyProgress ==
    /\ (ProxyClientToServer \/ ProxyServerToClient)
    /\ relay_result' # "Err"
    /\ UNCHANGED <<selVars, secVars, dispVars, peerVars, cfgVars, poolVars>>

CbProgress(dir) ==
    /\ (CbRead(dir) \/ CbWrite(dir) \/ CbShutdown(dir) \/ CbReturn)
    /\ UNCHANGED <<selVars, secVars, dispVars, peerVars, cfgVars, poolVars>>

FairRelay ==
    /\ WF_vars(ProxyProgress)
    /\ \A dir \in Dirs : WF_vars(CbProgress(dir))

SpecRelayFair == SpecRelay /\ FairRelay

\* C11: the two directions of a running relay proceed independently: the
\* bytes the server has sent are eventually all delivered to the client (or
\* the relay has ended) whatever the client does, also when it sends nothing
\* and keeps its connection open; and the same for the bytes the client has
\* sent, whatever the server does.
C11_DirectionsIndependent ==
    /\ (relay_result = "none" /\ Len(io.to_client) < net.server_sent)
          ~> (relay_result # "none" \/ Len(io.to_client) = net.server_sent)
    /\ (relay_result = "none" /\ Len(io.to_server) < net.client_sent)
          ~> (relay_result # "none" \/ Len(io.to_server) = net.client_sent)

\* C12: the lock around the selector's pool is held for one selection only:
\* no connection's task holds it while its outbound connect is pending
\* (Connected) or its relay is running (Relaying), so that a running relay
\* never keeps a later connection from obtaining a peer.
C12_LockHeldOnlyForSelection ==
    \A c \in 1..MaxConns :
        conns[c].st \in {"Connected", "Relaying"} => mutex # c

\* The accept loop accepts one more connection.
AcceptStep ==
    /\ \E ip \in IPs : NlbAccept(ip) \/ LbAccept(ip)
    /\ UNCHANGED <<sel_ret, sel_calls, sel_fresh, sel_hist, sel_health, sec_query, relayVars, peerVars, cfgVars, poolVars>>

\* C13: the accept loop blocks only on accepting the next connection: while
\* it runs, it can accept the next connection in every state, also while an
\* earlier connection's outbound connect or relay is still in progress.
C13_AcceptLoopNeverWaitsForAConnection ==
    (accept_loop = "running" /\ n_accepted < MaxConns) => ENABLED AcceptStep

\* A connection was accepted while an earlier one was connecting or relaying.
C13_Witness ==
    /\ accept_loop = "running"
    /\ n_accepted = 2
    /\ conns[1].st \in {"Connected", "Relaying"}
    /\ conns[2].st = "Accepted" \/ conns[2].st = "Selected"

\* ---- claims about the peer and its health probe

\* The last health_check call has returned with the given outcome.
ProbeReturned(outcome) == probe.pc = "returned" /\ probe.outcome = outcome

\* C14: a health probe whose connect does not complete within the timeout
\* returns normally with the negative result Ok(false), at the timeout and
\* not later, and the peer's health flag is false afterwards; a pending
\* connect never outlasts the timeout.
C14_TimeoutIsANormalNegativeResult ==
    /\ probe.pc = "connecting" => probe.elapsed <= probe.timeout
    /\ ProbeReturned("timed_out") =>
          /\ probe.ret = Some("Ok(false)")
          /\ probe.elapsed = probe.timeout
          /\ ~the_peer.healthy

\* A peer's second probe timed out.
C14_Witness ==
    /\ ProbeReturned("timed_out")
    /\ probe.n = 2

\* C15: a health probe whose connect fails with a connection error returns
\* the normal negative result, exactly like a timeout, not an error, and
\* the health flag is false afterwards.
C15_ConnectErrorIsUnreachable ==
    ProbeReturned("conn_err") =>
        /\ probe.ret = Some("Ok(false)")
        /\ ~the_peer.healthy

\* C16: a probe of a peer without a distinct health-check target attempts
\* the connection to the peer's primary target: when it has returned, the
\* connect has completed, failed or timed out, and the flag says which.
C16_ProbeFallsBackToPrimaryTarget ==
    (the_peer.health_endpoint = None /\ probe.pc = "returned") =>
        /\ probe.outcome \in {"connected", "conn_err", "timed_out"}
        /\ the_peer.healthy <=> probe.outcome = "connected"

\* C17: the health flag is false until the first probe has completed and
\* then tells whether the most recent completed probe completed a
\* connection.
C17_FlagIsLastProbeOutcome ==
    IF probe.outcome = "none"
    THEN ~the_peer.healthy
    ELSE the_peer.healthy <=> probe.outcome = "connected"

\* C18: a Peer's weight is at least 1, however the peer was built.
C18_WeightAtLeastOne == the_peer.weight >= 1

DispProgress(c) ==
    /\ NlbTaskStart(c) \/ LbServeStart(c)
    /\ UNCHANGED <<sel_ret, sel_calls, sel_fresh, sel_hist, sel_health, sec_query, relayVars, peerVars, cfgVars, poolVars>>

FairDisp == \A c \in 1..MaxConns : WF_vars(DispProgress(c))

SpecDispFair == SpecDisp /\ FairDisp

\* C19: the outbound connect is bounded by a connect timeout of its own: a
\* connection in Connected eventually leaves it, to Relaying when the
\* backend completes the connection and to Closed otherwise, also when the
\* backend neither completes nor refuses.
C19_ConnectIsBounded ==
    \A c \in 1..MaxConns :
        (conns[c].st = "Connected") ~> (conns[c].st \in {"Relaying", "Closed"})

\* ---- claims about the selectors, the filter's test and the configuration

\* C21: on a fresh RoundRobinSelector and a fixed non-empty list of n
\* backends the k-th select_service returns index (k-1) mod n, a valid
\* index of the list.
C21_KthSelectReturnsKMinus1ModN ==
    Len(lb.services) >= 1 =>
        \A k \in 1..Len(sel_hist) :
            /\ sel_hist[k] = (k - 1) % Len(lb.services)
            /\ sel_hist[k] + 1 \in DOMAIN lb.services

\* n + 1 calls were made over a list of n >= 2 backends: the sequence has
\* wrapped to index 0.
C21_Witness ==
    /\ Len(lb.services) >= 2
    /\ Len(sel_hist) = Len(lb.services) + 1
    /\ sel_hist[Len(sel_hist)] = 0

\* C22: as test_ip_filter_no_whitelist asserts, on a Security with an empty
\* whitelist and a blacklist that holds the one address X, is_allowed
\* returns true for every other address and also for X itself.
C22_NoWhitelistTestAssertions ==
    \A i \in DOMAIN sec_query :
        LET q == sec_query[i] IN
        (q.on.ip_whitelist = {} /\ Cardinality(q.on.ip_blacklist) = 1) =>
            q.ret = TRUE

\* How many times x occurs in seq at the positions from..to.
Count(seq, from, to, x) == Cardinality({j \in from..to : seq[j] = x})

\* C23: under a pool of n >= 1 peers that is not modified, any n
\* consecutive next() calls return each peer of the pool exactly once, and
\* the sequence of peers returned repeats with period n: the peer a call
\* returns depends only on the number of calls made before it.
C23_FairUnderStaticPool ==
    LET pool == selector.pool
        n == Len(pool)
    IN  n >= 1 =>
          /\ \A i \in 1..(Len(sel_hist) - n + 1) : \A p \in Peers :
                 Count(sel_hist, i, i + n - 1, Some(p)) = Count(pool, 1, n, p)
          /\ \A i \in 1..(Len(sel_hist) - n) : sel_hist[i + n] = sel_hist[i]

\* Four calls were made on a pool of three different peers.
C23_Witness ==
    /\ Len(selector.pool) = 3
    /\ Cardinality(Range(selector.pool)) = 3
    /\ Len(sel_hist) >= 4

\* C24: add_peer appends the peer to the pool, keeps the peers already
\* there in their order and leaves the cursor where it is; and the peer
\* added last to a pool that then holds n peers is returned by one of the
\* next n calls of next() made while the pool is not modified.
C24_AddPeerAppends ==
    /\ [](LET n == Len(selector.pool) IN
          (n >= 1 /\ Len(sel_hist) >= n) =>
              \E j \in 1..n : sel_hist[j] = Some(selector.pool[n]))
    /\ [][selector'.pool # selector.pool =>
            /\ \E p \in Peers : selector'.pool = Append(selector.pool, p)
            /\ selector'.last_idx = selector.last_idx]_vars

\* A peer that is not in the pool otherwise was added after calls of next()
\* and has been returned since.
C24_Witness ==
    LET n == Len(selector.pool) IN
    /\ ~sel_fresh
    /\ n >= 2
    /\ Count(selector.pool, 1, n, selector.pool[n]) = 1
    /\ sel_ret = Some(selector.pool[n])
    /\ Len(sel_hist) >= 1

\* C25: after any add_peer and next calls, whenever the pool is not empty
\* the cursor is less than the pool's length, and a next() made on the
\* pool has returned Some(peer) with peer in the pool.
C25_CursorWithinPool ==
    Len(selector.pool) >= 1 =>
        /\ selector.last_idx < Len(selector.pool)
        /\ Len(sel_hist) >= 1 =>
              /\ sel_ret # None
              /\ sel_ret[1] \in Range(selector.pool)

\* The pool grew between calls of next() and the cursor has wrapped to 0.
C25_Witness ==
    /\ ~sel_fresh
    /\ Len(selector.pool) >= 2
    /\ Len(sel_hist) >= 2
    /\ selector.last_idx = 0

\* C27: next() does not consult the health flag: the peer it returns is
\* the one at the cursor, whatever the flags of the pool's peers are.
C27_NextIgnoresHealth ==
    (Len(selector.pool) >= 1 /\ Len(sel_hist) >= 1) =>
        sel_ret = Some(selector.pool[selector.last_idx + 1])

\* next() returned a peer whose flag is false from a pool that also holds a
\* peer whose flag is true.
C27_Witness ==
    /\ sel_ret # None
    /\ Len(sel_hist) >= 1
    /\ ~sel_health[sel_ret[1]]
    /\ \E i \in DOMAIN selector.pool : sel_health[selector.pool[i]]

\* C26: a connection rejected by listener_task's filter does not consume a
\* selection: the step that rejects it leaves the selector's cursor and
\* pool as they were, and the cursor counts the admitted connections only,
\* however many rejected connections came between them.
C26_RejectionConsumesNoSelection ==
    /\ [][\A c \in 1..MaxConns :
            (conns[c].st # "Closed" /\ conns'[c].fail = "rejected") =>
                selector' = selector]_vars
    /\ []((program = "nlb" /\ Len(selector.pool) >= 1) =>
            selector.last_idx = Cardinality(Admitted) % Len(selector.pool))

\* The first connection was rejected and the second was given a peer.
C26_Witness ==
    /\ program = "nlb"
    /\ conns[1].fail = "rejected"
    /\ conns[2].peer # None

\* An optional number of seconds as the optional Duration it configures.
OptDuration(opt) == IF opt = None THEN None ELSE Some([secs |-> opt[1], nanos |-> 0])

\* C28: Backend::from_config maps each configured timeout to its own field:
\* request_timeout is the configured request timeout (None when absent),
\* whatever the health-check timeout is; health_check_timeout is the
\* configured health-check timeout and health_check_interval the configured
\* interval.
C28_EachTimeoutFromItsOwnOption ==
    backend # None =>
        /\ backend[1].request_timeout = OptDuration(backend_cfg.request_timeout_seconds)
        /\ backend[1].health_check_timeout =
              OptDuration(backend_cfg.health_check_timeout_seconds)
        /\ backend[1].health_check_interval =
              OptDuration(backend_cfg.health_check_interval_seconds)

\* ---- the thread pool under the scheduling the operating system gives it
\* A worker thread that can take the lock, receive or finish its job does
\* so, and a join whose thread has ended returns. Nothing obliges the owner
\* of the pool to send a job or to drop the pool.

WorkerProgress(w) ==
    /\ WorkerLock(w) \/ WorkerRecv(w) \/ WorkerFinish(w)
    /\ UNCHANGED <<selVars, secVars, dispVars, relayVars, peerVars, cfgVars>>

JoinProgress ==
    /\ TpJoin
    /\ UNCHANGED <<selVars, secVars, dispVars, relayVars, peerVars, cfgVars>>

FairPool ==
    /\ \A w \in 1..MaxWorkers : WF_vars(w \in Workers /\ WorkerProgress(w))
    /\ WF_vars(JoinProgress)

SpecPoolFair == SpecPool /\ FairPool

\* Every job sent has finished: the channel is empty and no worker runs a
\* job.
AllJobsFinished ==
    /\ tp.queue = <<>>
    /\ \A w \in Workers : tp.pc[w] # "run"

\* C29: dropping a ThreadPool terminates: once every job sent has finished,
\* a drop that has started makes every worker leave its loop, joins them
\* all and returns.
C29_DropTerminates ==
    (tp.drop = "joining" /\ AllJobsFinished) ~> (tp.drop = "returned")

\* The jobs in the channel.
Queued == Range(tp.queue)

=============================================================================
